---------------------------- MODULE Spec2Model ----------------------------
(***************************************************************************)
(* The Yellow Network session client (YellowProvider): one React provider  *)
(* holding the session state, a reference to the current WebSocket, and    *)
(* the handlers it attaches to every socket it creates.                    *)
(*                                                                         *)
(* Each action is one task of the browser's event loop: a call of          *)
(* connect() or disconnect(), an effect, or one socket/timer/promise       *)
(* callback together with the microtasks it triggers (the continuation of  *)
(* `await authenticate(...)` in ws.onopen runs in the same task as the     *)
(* reject() or resolve() that settles the promise).                        *)
(*                                                                         *)
(* setSession is always called with an updater of the previous state (or   *)
(* with a constant), so applying each update at once gives the same        *)
(* sequence of session values as React's queue.                            *)
(*                                                                         *)
(* The module also holds the two transaction builder tools of              *)
(* yellow-tool.ts (buildYellowDepositTx, buildYellowWithdrawTx): pure      *)
(* functions of their arguments, applied once to arguments drawn from      *)
(* small sets (SpecTools).                                                 *)
(***************************************************************************)
EXTENDS Naturals, FiniteSets, Sequences

(* ----------------------------- bounds ---------------------------------- *)

\* Number of WebSocket objects the client constructs in one run.
MaxSockets == 1

\* Number of wallet signatures one handshake requests.
MaxSigns == 2

\* Number of WebSocket objects constructed in a run against a coordinator
\* that accepts connections and never sends a frame.
MaxSilentSockets == 3

\* Number of WebSocket objects constructed in a run against a coordinator
\* that accepts every wallet without a challenge.
MaxAcceptedSockets == 2

\* The largest of the three numbers of sockets.
MostSockets ==
    LET m == IF MaxSockets > MaxSilentSockets THEN MaxSockets ELSE MaxSilentSockets
    IN  IF m > MaxAcceptedSockets THEN m ELSE MaxAcceptedSockets

\* The names of the WebSocket objects, in the order of their construction.
Sockets == 1..MostSockets

(* ------------------------- values of the program ----------------------- *)

\* JavaScript's null and undefined, and a field absent from a JSON object.
Null == "<null>"
Undefined == "<undefined>"
Absent == Undefined

\* isSupported as it would be without the test of the chain.
isSupportedAnyChain(w) == w.isConnected

\* `v || d` over strings, null and undefined: the empty string is falsy.
Falsy(v) == v \in {Null, Undefined, ""}

OrElse(v, d) == IF Falsy(v) THEN d ELSE v

\* The chains Yellow Network supports, and the chains the wallet may be on
\* (wagmi's config: mainnet, arbitrum, polygon, optimism, base, sepolia).
SupportedChains == {1, 42161, 8453}

WalletChains == {1, 42161, 8453, 137}

\* What useAccount() returns: no account, an account that is not connected
\* (the wallet is reconnecting), or a connected account on some chain.
WalletStates ==
    {[address |-> Undefined, isConnected |-> FALSE, chainId |-> 0]} \cup
    {[address |-> "0xA11ce", isConnected |-> FALSE, chainId |-> 1]} \cup
    {[address |-> "0xA11ce", isConnected |-> TRUE, chainId |-> c] : c \in WalletChains}

isSupported(w) == w.isConnected /\ w.chainId \in SupportedChains

\* The reasons the client records.
ErrWallet == "Wallet not connected or chain not supported"
ErrSocket == "WebSocket connection error"
ErrTimeout == "Authentication timeout"
ErrRejected == "Authentication rejected"
ErrAuthFailed == "Authentication failed"
\* The message of the SyntaxError JSON.parse throws.
ErrParse == "Unexpected token in JSON"
\* The message of the Error the wallet rejects a signature with.
ErrSign == "User rejected the request"
\* A rejection reason sent by the server.
ErrServer == "denied by server"

initialState ==
    [status |-> "disconnected",
     channelId |-> Null,
     balance |-> "0",
     tokenSymbol |-> "USDC",
     tokenDecimals |-> 6,
     error |-> Null]

(* ------------------------------ frames --------------------------------- *)

\* Inbound frames, as the text of a message event.  `obj` says whether the
\* frame's `result` (a response) or `params` (a push) object is present.
Frame(kind, obj, flag, cid, bal, msg) ==
    [kind |-> kind, obj |-> obj, flag |-> flag,
     channelId |-> cid, balance |-> bal, message |-> msg]

\* Text that is not JSON.
InvalidFrames == {Frame("invalid", FALSE, FALSE, Absent, Absent, Absent)}

\* {id: 1, result: {challenge}} and {id: 1, result: {}}.
ChallengeFrames ==
    {Frame("id1", TRUE, c, Absent, Absent, Absent) : c \in BOOLEAN}

\* {id: 2, result: {authenticated: true, channelId?, balance?}}.
AcceptFrames ==
    {Frame("id2", TRUE, TRUE, c, b, Absent) :
        c \in {Absent, "", "c1"}, b \in {Absent, "", "1000000"}}

\* {id: 2, result: {authenticated: false}, error?: {message?}} and
\* {id: 2, error: {message?}}.
RejectFrames ==
    {Frame("id2", o, FALSE, Absent, Absent, m) :
        o \in BOOLEAN, m \in {Absent, "", ErrServer}}

\* {method: "balance_update", params?: {balance?}}.
BalanceFrames ==
    {Frame("balance_update", FALSE, FALSE, Absent, Absent, Absent)} \cup
    {Frame("balance_update", TRUE, FALSE, Absent, b, Absent) :
        b \in {Absent, "2000000"}}

\* {method: "channel_opened", params?: {channelId?, balance?}}.
OpenedFrames ==
    {Frame("channel_opened", FALSE, FALSE, Absent, Absent, Absent)} \cup
    {Frame("channel_opened", TRUE, FALSE, c, b, Absent) :
        c \in {Absent, "c2"}, b \in {Absent, "2000000"}}

\* {method: "channel_closed", params?: {}}.
ClosedFrames ==
    {Frame("channel_closed", o, FALSE, Absent, Absent, Absent) : o \in BOOLEAN}

\* A frame with a method the client does not know.
OtherFrames == {Frame("other", TRUE, FALSE, Absent, Absent, Absent)}

Frames ==
    InvalidFrames \cup ChallengeFrames \cup AcceptFrames \cup RejectFrames \cup
    BalanceFrames \cup OpenedFrames \cup ClosedFrames \cup OtherFrames


(* ------------------------------- state --------------------------------- *)

VARIABLES
    component,            \* "mounted", "unmounted" or "crashed": the provider's life
    session,              \* the useState value
    wsRef,                \* wsRef.current: a socket, or 0 for null
    reconnectTimeoutRef,  \* reconnectTimeoutRef.current
    readyState,           \* readyState of each socket
    closeCalled,          \* whether the client called close() on the socket
    discarded,            \* how the client let go of the socket: by connect() or disconnect()
    listener,             \* whether authHandler is registered on the socket
    timer,                \* the 30-second timer of the socket's handshake
    promise,              \* the promise authenticate() returned for the socket
    signing,              \* signMessageAsync calls in flight for the socket
    sentVerify,           \* auth_verify frames sent on the socket
    last,                 \* the step taken last: its input, and the session and wsRef before it
    toolInput,            \* the arguments a transaction builder tool is called with
    toolOutput            \* the tool that ran and what its execute() returned or threw

sockVars ==
    <<readyState, closeCalled, discarded, listener, timer, promise, signing,
      sentVerify>>

clientVars ==
    <<component, session, wsRef, reconnectTimeoutRef, sockVars, last>>

toolVars == <<toolInput, toolOutput>>

vars == <<clientVars, toolVars>>

Statuses == {"disconnected", "connecting", "authenticating", "active", "error"}

\* No frame, no error: the input of a step that takes none.
NoFrame == Frame("none", FALSE, FALSE, Absent, Absent, Absent)

NoError == [isError |-> FALSE, message |-> Null]

\* The record of a step: what ran, on which socket, with which frame or
\* error, whether authHandler was registered on that socket, and the
\* session and wsRef.current the step found.
Event(op, s, f, err) ==
    [op |-> op, sock |-> s, frame |-> f, err |-> err,
     hs |-> (s # 0 /\ listener[s]), prev |-> session, ref |-> wsRef]

TypeOK ==
    /\ component \in {"mounted", "unmounted", "crashed"}
    /\ session.status \in Statuses
    /\ wsRef \in {0} \cup Sockets
    /\ reconnectTimeoutRef = Null
    /\ readyState \in [Sockets -> {"NONE", "CONNECTING", "OPEN", "CLOSING", "CLOSED"}]
    /\ closeCalled \in [Sockets -> BOOLEAN]
    /\ discarded \in [Sockets -> {"no", "connect", "disconnect"}]
    /\ listener \in [Sockets -> BOOLEAN]
    /\ timer \in [Sockets -> {"none", "pending", "cleared", "fired"}]
    /\ promise \in [Sockets -> {"none", "pending", "resolved", "rejected"}]
    /\ signing \in [Sockets -> Nat]
    /\ sentVerify \in [Sockets -> Nat]
    /\ last.prev.status \in Statuses

InitClient ==
    /\ component = "mounted"
    /\ session = initialState
    /\ wsRef = 0
    /\ reconnectTimeoutRef = Null
    /\ readyState = [s \in Sockets |-> "NONE"]
    /\ closeCalled = [s \in Sockets |-> FALSE]
    /\ discarded = [s \in Sockets |-> "no"]
    /\ listener = [s \in Sockets |-> FALSE]
    /\ timer = [s \in Sockets |-> "none"]
    /\ promise = [s \in Sockets |-> "none"]
    /\ signing = [s \in Sockets |-> 0]
    /\ sentVerify = [s \in Sockets |-> 0]
    /\ last = [op |-> "mount", sock |-> 0, frame |-> NoFrame, err |-> NoError,
               hs |-> FALSE, prev |-> initialState, ref |-> 0]

\* No tool call: the arguments and the output of a run without one.
NoInput == [chainId |-> 0, amount |-> <<>>, tokenAddress |-> Undefined]

NoOutput == [tool |-> "none"]

\* The session client after construction; no tool is called.
Init ==
    /\ InitClient
    /\ toolInput = NoInput
    /\ toolOutput = NoOutput

(* ------------------------- pieces of the handlers ---------------------- *)

\* setSession: React drops updates of a component that is no longer mounted.
SetSession(next) == IF component = "mounted" THEN next ELSE session

\* WebSocket.close(): a connecting or open socket starts closing; closing
\* and closed sockets are left as they are.
CloseState(rs) == IF rs \in {"CONNECTING", "OPEN"} THEN "CLOSING" ELSE rs

\* readyState after close() was called on each socket of `which`.
AfterClose(which) ==
    [s \in Sockets |-> IF s \in which THEN CloseState(readyState[s]) ELSE readyState[s]]

\* closeCalled after close() was called on each socket of `which`.
MarkClosed(which) ==
    [s \in Sockets |-> closeCalled[s] \/ s \in which]

\* setSession(prev => ({...prev, status: 'error', error})).
WithError(sess, msg) == [sess EXCEPT !.status = "error", !.error = msg]

\* The reason the catch block of ws.onopen records as it would be if it
\* never used the message of the error.
CatchMessageAlwaysDefault(err) == ErrAuthFailed

\* `err instanceof Error ? err.message : 'Authentication failed'`.
CatchMessage(err) == IF err.isError THEN err.message ELSE ErrAuthFailed

ErrorOf(msg) == [isError |-> TRUE, message |-> msg]

\* clearTimeout as it would be if the timer were left running.
ClearTimeoutKeeps(t) == t

\* clearTimeout(timeout): a timer that already fired stays fired.
ClearTimeout(t) == IF t = "pending" THEN "cleared" ELSE t

\* The socket wsRef.current holds, as a set.
Held == IF wsRef # 0 THEN {wsRef} ELSE {}

(* ---------------------------- handleMessage ---------------------------- *)

\* Whether the updater handleMessage queues for `f` throws when React runs
\* it: `message.params.balance` and `message.params.channelId` are read
\* inside the updater, outside handleMessage's try block, so a push frame
\* without params makes the next render of the provider throw.
UpdaterThrows(f) ==
    f.kind \in {"balance_update", "channel_opened"} /\ ~f.obj

\* handleMessage as it would be if balance_update also cleared the channel.
handleMessageBalanceClears(sess, f) ==
    CASE f.kind = "balance_update" ->
            [sess EXCEPT !.balance = f.balance, !.channelId = Null]
      [] f.kind = "channel_opened" ->
            [sess EXCEPT !.channelId = f.channelId, !.balance = f.balance]
      [] f.kind = "channel_closed" ->
            [sess EXCEPT !.channelId = Null, !.balance = "0"]
      [] OTHER -> sess

\* handleMessage as it would be if channel_closed kept the balance.
handleMessageClosedKeepsBalance(sess, f) ==
    CASE f.kind = "balance_update" ->
            [sess EXCEPT !.balance = f.balance]
      [] f.kind = "channel_opened" ->
            [sess EXCEPT !.channelId = f.channelId, !.balance = f.balance]
      [] f.kind = "channel_closed" ->
            [sess EXCEPT !.channelId = Null]
      [] OTHER -> sess

\* handleMessage as it would be if channel_opened adopted the channel id
\* and not the balance.
handleMessageOpenedKeepsBalance(sess, f) ==
    CASE f.kind = "balance_update" ->
            [sess EXCEPT !.balance = f.balance]
      [] f.kind = "channel_opened" ->
            [sess EXCEPT !.channelId = f.channelId]
      [] f.kind = "channel_closed" ->
            [sess EXCEPT !.channelId = Null, !.balance = "0"]
      [] OTHER -> sess

\* The session after handleMessage(data), for a frame whose updater does
\* not throw.  JSON.parse failing is caught and leaves the session alone.
handleMessage(sess, f) ==
    CASE f.kind = "balance_update" ->
            [sess EXCEPT !.balance = f.balance]
      [] f.kind = "channel_opened" ->
            [sess EXCEPT !.channelId = f.channelId, !.balance = f.balance]
      [] f.kind = "channel_closed" ->
            [sess EXCEPT !.channelId = Null, !.balance = "0"]
      [] OTHER -> sess

(* ----------------------------- authenticate ---------------------------- *)

\* Reject as it would be if the catch block of ws.onopen did not call
\* ws.close().
RejectLeavesOpen(s, sess, err) ==
    IF promise[s] = "pending"
    THEN [session |-> WithError(sess, CatchMessage(err)),
          promise |-> "rejected", close |-> FALSE]
    ELSE [session |-> sess, promise |-> promise[s], close |-> FALSE]

\* reject(err) on the promise of socket s, followed by the catch block of
\* ws.onopen when the promise was still pending: the session records the
\* reason and close() is called on s.  A settled promise ignores reject().
Reject(s, sess, err) ==
    IF promise[s] = "pending"
    THEN [session |-> WithError(sess, CatchMessage(err)),
          promise |-> "rejected", close |-> TRUE]
    ELSE [session |-> sess, promise |-> promise[s], close |-> FALSE]

\* Authenticated as it would be if the result's channel id were dropped.
AuthenticatedNoChannel(sess, f) ==
    [sess EXCEPT !.status = "active",
                 !.channelId = Null,
                 !.balance = OrElse(f.balance, "0")]

\* The session after the id-2 branch accepted the wallet.
Authenticated(sess, f) ==
    [sess EXCEPT !.status = "active",
                 !.channelId = OrElse(f.channelId, Null),
                 !.balance = OrElse(f.balance, "0")]

\* RejectionReason as it would be if the server's reason were ignored.
RejectionReasonDefault(f) == ErrRejected

\* The reason the id-2 branch rejects with.
RejectionReason(f) == OrElse(f.message, ErrRejected)

\* What one run of authHandler does to socket s and to the session, up to
\* its first await: the new values of the handshake's fields, whether a
\* signature is requested, and whether close() is called on s.
authHandler(s, sess, f) ==
    LET same == [session |-> sess, promise |-> promise[s], close |-> FALSE,
                 listener |-> TRUE, timer |-> timer[s], sign |-> FALSE]
    IN  CASE f.kind = "invalid" ->
                LET r == Reject(s, sess, ErrorOf(ErrParse))
                IN  [session |-> r.session, promise |-> r.promise, close |-> r.close,
                     listener |-> FALSE, timer |-> ClearTimeout(timer[s]),
                     sign |-> FALSE]
          [] f.kind = "id1" /\ f.obj /\ f.flag ->
                [same EXCEPT !.sign = TRUE]
          [] f.kind = "id2" /\ f.obj /\ f.flag ->
                [session |-> Authenticated(sess, f),
                 promise |-> IF promise[s] = "pending" THEN "resolved" ELSE promise[s],
                 close |-> FALSE, listener |-> FALSE,
                 timer |-> ClearTimeout(timer[s]), sign |-> FALSE]
          [] f.kind = "id2" /\ ~(f.obj /\ f.flag) ->
                LET r == Reject(s, sess, ErrorOf(RejectionReason(f)))
                IN  [session |-> r.session, promise |-> r.promise, close |-> r.close,
                     listener |-> FALSE, timer |-> ClearTimeout(timer[s]),
                     sign |-> FALSE]
          [] OTHER -> same

(* ------------------------------- actions ------------------------------- *)

\* connect() while the wallet `w` has no address or is not on a supported
\* chain.
ConnectRefused(w) ==
    /\ component = "mounted"
    /\ Falsy(w.address) \/ ~isSupported(w)
    /\ session' = SetSession(WithError(session, ErrWallet))
    /\ last' = Event("connectRefused", 0, NoFrame, NoError)
    /\ UNCHANGED toolVars
    /\ UNCHANGED <<component, wsRef, reconnectTimeoutRef, sockVars>>

\* The sockets constructed so far.
Created == {s \in Sockets : readyState[s] # "NONE"}

\* connect() with the preconditions met, in a run of at most `n` sockets:
\* close the socket wsRef holds, set status to connecting, construct a
\* socket and keep it in wsRef.
Connect(w, n) ==
    /\ component = "mounted"
    /\ ~(Falsy(w.address) \/ ~isSupported(w))
    /\ Cardinality(Created) < n
    /\ LET new == Cardinality(Created) + 1
       IN  /\ readyState' = [AfterClose(Held) EXCEPT ![new] = "CONNECTING"]
           /\ wsRef' = new
           /\ last' = Event("connect", new, NoFrame, NoError)
           /\ UNCHANGED toolVars
    /\ closeCalled' = MarkClosed(Held)
    /\ discarded' = [s \in Sockets |->
                       IF s \in Held /\ discarded[s] = "no"
                       THEN "connect" ELSE discarded[s]]
    /\ session' = SetSession([session EXCEPT !.status = "connecting", !.error = Null])
    /\ UNCHANGED <<component, reconnectTimeoutRef, listener, timer, promise, signing,
                   sentVerify>>

\* disconnect() as it would be if it dropped the reference without calling
\* close() on the socket.
DisconnectLeavesOpen ==
    /\ component = "mounted"
    /\ discarded' = [s \in Sockets |->
                       IF s \in Held /\ discarded[s] = "no"
                       THEN "disconnect" ELSE discarded[s]]
    /\ wsRef' = 0
    /\ reconnectTimeoutRef' = Null
    /\ session' = SetSession(initialState)
    /\ last' = Event("disconnect", wsRef, NoFrame, NoError)
    /\ UNCHANGED toolVars
    /\ UNCHANGED <<component, readyState, closeCalled, listener, timer, promise,
                   signing, sentVerify>>

\* disconnect(), called through the context or by the effect on
\* [isConnected] when the wallet is no longer connected.
Disconnect ==
    /\ component = "mounted"
    /\ readyState' = AfterClose(Held)
    /\ closeCalled' = MarkClosed(Held)
    /\ discarded' = [s \in Sockets |->
                       IF s \in Held /\ discarded[s] = "no"
                       THEN "disconnect" ELSE discarded[s]]
    /\ wsRef' = 0
    /\ reconnectTimeoutRef' = Null
    /\ session' = SetSession(initialState)
    /\ last' = Event("disconnect", wsRef, NoFrame, NoError)
    /\ UNCHANGED toolVars
    /\ UNCHANGED <<component, listener, timer, promise, signing, sentVerify>>

\* The cleanup of the mount effect: close() on the socket wsRef holds.
\* reconnectTimeoutRef is never set, so there is no timer to clear.
Cleanup(how) ==
    /\ component' = how
    /\ readyState' = AfterClose(Held)
    /\ closeCalled' = MarkClosed(Held)
    /\ UNCHANGED <<session, wsRef, reconnectTimeoutRef, discarded, listener, timer,
                   promise, signing, sentVerify>>

\* The provider is unmounted.
Unmount ==
    /\ component = "mounted"
    /\ Cleanup("unmounted")
    /\ last' = Event("unmount", wsRef, NoFrame, NoError)
    /\ UNCHANGED toolVars

\* ws.onopen as it would be if authenticate() started no timer.
OpenEventNoTimer(s) ==
    /\ readyState[s] = "CONNECTING"
    /\ readyState' = [readyState EXCEPT ![s] = "OPEN"]
    /\ session' = SetSession([session EXCEPT !.status = "authenticating"])
    /\ listener' = [listener EXCEPT ![s] = TRUE]
    /\ promise' = [promise EXCEPT ![s] = "pending"]
    /\ last' = Event("open", s, NoFrame, NoError)
    /\ UNCHANGED toolVars
    /\ UNCHANGED <<component, wsRef, reconnectTimeoutRef, closeCalled, discarded,
                   signing, sentVerify, timer>>

\* ws.onopen of socket s: status authenticating, then authenticate() up to
\* its promise: auth_challenge is sent, the timer is started and authHandler
\* is registered.
OpenEvent(s) ==
    /\ readyState[s] = "CONNECTING"
    /\ readyState' = [readyState EXCEPT ![s] = "OPEN"]
    /\ session' = SetSession([session EXCEPT !.status = "authenticating"])
    /\ timer' = [timer EXCEPT ![s] = "pending"]
    /\ listener' = [listener EXCEPT ![s] = TRUE]
    /\ promise' = [promise EXCEPT ![s] = "pending"]
    /\ last' = Event("open", s, NoFrame, NoError)
    /\ UNCHANGED toolVars
    /\ UNCHANGED <<component, wsRef, reconnectTimeoutRef, closeCalled, discarded,
                   signing, sentVerify>>

\* A message event on socket s: ws.onmessage (handleMessage) runs first,
\* then authHandler if it is registered.  A browser delivers messages only
\* while the socket is open.  `k` bounds the signatures of one handshake.
MessageEvent(s, f, k) ==
    /\ readyState[s] = "OPEN"
    /\ last' = Event("message", s, f, NoError)
    /\ UNCHANGED toolVars
    /\ IF component = "mounted" /\ UpdaterThrows(f)
       THEN Cleanup("crashed")
       ELSE LET pushed == handleMessage(session, f)
                a == IF listener[s]
                     THEN authHandler(s, pushed, f)
                     ELSE [session |-> pushed, promise |-> promise[s],
                           close |-> FALSE, listener |-> FALSE,
                           timer |-> timer[s], sign |-> FALSE]
                closing == IF a.close THEN {s} ELSE {}
            IN  /\ a.sign => signing[s] + sentVerify[s] < k
                /\ session' = SetSession(a.session)
                /\ promise' = [promise EXCEPT ![s] = a.promise]
                /\ listener' = [listener EXCEPT ![s] = a.listener]
                /\ timer' = [timer EXCEPT ![s] = a.timer]
                /\ signing' = [signing EXCEPT ![s] = IF a.sign THEN @ + 1 ELSE @]
                /\ readyState' = AfterClose(closing)
                /\ closeCalled' = MarkClosed(closing)
                /\ UNCHANGED <<component, wsRef, reconnectTimeoutRef, discarded,
                               sentVerify>>

\* signMessageAsync resolves for socket s: auth_verify is sent.  send() on
\* a socket that is closing or closed transmits nothing and does not throw.
SignResolved(s) ==
    /\ signing[s] > 0
    /\ signing' = [signing EXCEPT ![s] = @ - 1]
    /\ sentVerify' = [sentVerify EXCEPT ![s] = IF readyState[s] = "OPEN" THEN @ + 1 ELSE @]
    /\ last' = Event("signResolved", s, NoFrame, NoError)
    /\ UNCHANGED toolVars
    /\ UNCHANGED <<component, session, wsRef, reconnectTimeoutRef, readyState,
                   closeCalled, discarded, listener, timer, promise>>

\* signMessageAsync rejects for socket s with `err`: the catch block of
\* authHandler clears the timer, removes the listener and rejects.
SignRejected(s, err) ==
    /\ signing[s] > 0
    /\ LET r == Reject(s, session, err)
           closing == IF r.close THEN {s} ELSE {}
       IN  /\ session' = SetSession(r.session)
           /\ promise' = [promise EXCEPT ![s] = r.promise]
           /\ readyState' = AfterClose(closing)
           /\ closeCalled' = MarkClosed(closing)
    /\ signing' = [signing EXCEPT ![s] = @ - 1]
    /\ timer' = [timer EXCEPT ![s] = ClearTimeout(@)]
    /\ listener' = [listener EXCEPT ![s] = FALSE]
    /\ last' = Event("signRejected", s, NoFrame, err)
    /\ UNCHANGED toolVars
    /\ UNCHANGED <<component, wsRef, reconnectTimeoutRef, discarded, sentVerify>>

\* What signMessageAsync may reject with: an Error, or a value that is none.
SignErrors == {ErrorOf(ErrSign), [isError |-> FALSE, message |-> Undefined]}

\* The handshake timer of socket s fires.
TimerFires(s) ==
    /\ timer[s] = "pending"
    /\ timer' = [timer EXCEPT ![s] = "fired"]
    /\ LET r == Reject(s, session, ErrorOf(ErrTimeout))
           closing == IF r.close THEN {s} ELSE {}
       IN  /\ session' = SetSession(r.session)
           /\ promise' = [promise EXCEPT ![s] = r.promise]
           /\ readyState' = AfterClose(closing)
           /\ closeCalled' = MarkClosed(closing)
    /\ last' = Event("timeout", s, NoFrame, NoError)
    /\ UNCHANGED toolVars
    /\ UNCHANGED <<component, wsRef, reconnectTimeoutRef, discarded, listener,
                   signing, sentVerify>>

\* ws.onerror.
onerror(sess) == WithError(sess, ErrSocket)

\* The updater of ws.onclose as it would be without its test of the status.
oncloseAlwaysResets(sess) == initialState

\* The updater of ws.onclose.
onclose(sess) == IF sess.status = "error" THEN sess ELSE initialState

\* The close event of socket s without an error before it: the closing
\* handshake of a socket that was open ended, started by either side.
CloseEvent(s) ==
    /\ readyState[s] \in {"OPEN", "CLOSING"}
    /\ promise[s] # "none"
    /\ readyState' = [readyState EXCEPT ![s] = "CLOSED"]
    /\ wsRef' = 0
    /\ session' = SetSession(onclose(session))
    /\ last' = Event("close", s, NoFrame, NoError)
    /\ UNCHANGED toolVars
    /\ UNCHANGED <<component, reconnectTimeoutRef, closeCalled, discarded, listener,
                   timer, promise, signing, sentVerify>>

\* The connection of socket s fails: the browser fires the error event and
\* then the close event in one task.  A socket that never opened (also one
\* on which close() was called while it was connecting) ends this way.
FailEvent(s) ==
    /\ readyState[s] \in {"CONNECTING", "OPEN", "CLOSING"}
    /\ readyState' = [readyState EXCEPT ![s] = "CLOSED"]
    /\ wsRef' = 0
    /\ session' = SetSession(onclose(onerror(session)))
    /\ last' = Event("fail", s, NoFrame, NoError)
    /\ UNCHANGED toolVars
    /\ UNCHANGED <<component, reconnectTimeoutRef, closeCalled, discarded, listener,
                   timer, promise, signing, sentVerify>>

(* ------------------- the transaction builder tools --------------------- *)

\* Text the tools parse is a sequence of one-character strings.
DigitChars == <<"0", "1", "2", "3", "4", "5", "6", "7", "8", "9">>

IsDigit(c) == \E i \in 1..Len(DigitChars) : DigitChars[i] = c

DigitValue(c) == (CHOOSE i \in 1..Len(DigitChars) : DigitChars[i] = c) - 1

\* A value returned, and an Error thrown with a message.
Return(v) == [threw |-> FALSE, value |-> v]

Throw(msg) == [threw |-> TRUE, error |-> [isError |-> TRUE, message |-> msg]]

YELLOW_SUPPORTED_CHAINS ==
    <<[chainId |-> 1, name |-> "Ethereum"],
      [chainId |-> 42161, name |-> "Arbitrum"],
      [chainId |-> 8453, name |-> "Base"]>>

YELLOW_CONTRACTS ==
    [custody |-> "0x490fb189DdE3a01B00be9BA5F41e3447FbC838b6",
     adjudicator |-> "0xcbbc03a873c11beeFA8D99477E830be48d8Ae6D7",
     balanceChecker |-> "0x2352c63A83f9Fd126af8676146721Fa00924d7e4"]

USDC_ADDRESSES ==
    [c \in {1, 42161, 8453} |->
        CASE c = 1 -> "0xA0b86991c6218b36c1d19D4a2e9Eb0cE3606eB48"
          [] c = 42161 -> "0xaf88d065e77c8cC2239327C5EDb3A432268e5831"
          [] c = 8453 -> "0x833589fCD6eDb6E08f4c7C32D4f71b54bdA02913"]

\* USDC_ADDRESSES[chainId]: undefined for a chain without an entry.
DefaultToken(chainId) ==
    IF chainId \in DOMAIN USDC_ADDRESSES THEN USDC_ADDRESSES[chainId] ELSE Undefined

\* YELLOW_SUPPORTED_CHAINS.find(c => c.chainId === chainId): the entries
\* found, first one first.
FindChain(chainId) ==
    SelectSeq(YELLOW_SUPPORTED_CHAINS, LAMBDA c : c.chainId = chainId)

\* YELLOW_SUPPORTED_CHAINS.map(c => c.name).join(', ').
ChainNames ==
    [i \in 1..Len(YELLOW_SUPPORTED_CHAINS) |-> YELLOW_SUPPORTED_CHAINS[i].name]

\* The decimal digits of viem's maxUint256, 2^256 - 1.
maxUint256 ==
    <<"1", "1", "5", "7", "9", "2", "0", "8", "9", "2", "3", "7", "3",
    "1", "6", "1", "9", "5", "4", "2", "3", "5", "7", "0", "9", "8", "5",
    "0", "0", "8", "6", "8", "7", "9", "0", "7", "8", "5", "3", "2", "6",
    "9", "9", "8", "4", "6", "6", "5", "6", "4", "0", "5", "6", "4", "0",
    "3", "9", "4", "5", "7", "5", "8", "4", "0", "0", "7", "9", "1", "3",
    "1", "2", "9", "6", "3", "9", "9", "3", "5">>

\* The token addresses a call may name besides the default: none, the
\* empty string, a checksummed address (USDT), a token symbol, and an
\* address whose checksum is wrong.
TokenUSDT == "0xdAC17F958D2ee523a2206206994597C13D831ec7"

TokenSymbol == "USDC"

TokenBadChecksum == "0xDAC17F958D2ee523a2206206994597C13D831ec7"

\* viem's isAddress: 0x and 40 hexadecimal digits, all of one case or with
\* the EIP-55 checksum.
isAddress(a) ==
    a \in {YELLOW_CONTRACTS.custody, TokenUSDT} \cup
          {USDC_ADDRESSES[c] : c \in DOMAIN USDC_ADDRESSES}

\* String.prototype.trim over spaces.
RECURSIVE TrimLeft(_)
TrimLeft(t) == IF t # <<>> /\ Head(t) = " " THEN TrimLeft(Tail(t)) ELSE t

RECURSIVE TrimRight(_)
TrimRight(t) ==
    IF t # <<>> /\ t[Len(t)] = " " THEN TrimRight(SubSeq(t, 1, Len(t) - 1)) ELSE t

\* The digits of a number without its leading zeros.
RECURSIVE StripZeros(_)
StripZeros(d) == IF Len(d) > 1 /\ Head(d) = "0" THEN StripZeros(Tail(d)) ELSE d

\* A bigint: its sign and the decimal digits of its magnitude.
Big(neg, digits) == [neg |-> neg /\ digits # <<"0">>, digits |-> digits]

\* BigInt(text) for decimal text: surrounding spaces are dropped, the empty
\* string is 0n, one sign may lead the digits; anything else is a
\* SyntaxError.
BigInt(text) ==
    LET s == TrimRight(TrimLeft(text))
        signed == s # <<>> /\ Head(s) \in {"-", "+"}
        body == IF signed THEN Tail(s) ELSE s
    IN  IF s = <<>>
        THEN Return(Big(FALSE, <<"0">>))
        ELSE IF body # <<>> /\ \A i \in 1..Len(body) : IsDigit(body[i])
             THEN Return(Big(Head(s) = "-", StripZeros(body)))
             ELSE Throw(<<"Cannot convert ", text, " to a BigInt">>)

\* a <= b for the digits of two magnitudes without leading zeros.
DigitsLeq(a, b) ==
    \/ Len(a) < Len(b)
    \/ /\ Len(a) = Len(b)
       /\ \/ a = b
          \/ \E i \in 1..Len(a) :
                /\ \A j \in 1..(i - 1) : a[j] = b[j]
                /\ DigitValue(a[i]) < DigitValue(b[i])

\* The 4-byte selectors of the ABI fragments.
Selector(functionName) ==
    CASE functionName = "approve" -> "0x095ea7b3"
      [] functionName = "deposit" -> "0x47e7ef24"
      [] functionName = "withdraw" -> "0xf3fef3a3"

\* viem's encodeFunctionData for (address, uint256): the selector followed
\* by the two encoded arguments; an address that is none and a number
\* outside 0 .. 2^256 - 1 throw.
encodeFunctionData(functionName, address, amount) ==
    IF ~isAddress(address)
    THEN Throw(<<"Address ", address, " is invalid">>)
    ELSE IF amount.neg \/ ~DigitsLeq(amount.digits, maxUint256)
         THEN Throw(<<"Number ", amount, " is not in safe 256-bit unsigned integer range">>)
         ELSE Return(<<Selector(functionName), address, amount>>)

\* String(n).padStart(width, '0') for the text of a number.
RECURSIVE PadStart(_, _)
PadStart(t, width) == IF Len(t) < width THEN PadStart(<<"0">> \o t, width) ELSE t

\* bigint.toString().
BigToString(b) == IF b.neg THEN <<"-">> \o b.digits ELSE b.digits

\* text.replace(/0+$/, '').
RECURSIVE DropTrailingZeros(_)
DropTrailingZeros(t) ==
    IF t # <<>> /\ t[Len(t)] = "0"
    THEN DropTrailingZeros(SubSeq(t, 1, Len(t) - 1)) ELSE t

\* formatAmount(amount, decimals): BigInt(amount) divided by 10^decimals,
\* the quotient and the remainder (both truncated towards zero, so both
\* carry the sign) joined by a point, the remainder padded to `decimals`
\* characters and cut to six, then /\.?0+$/ removed.
formatAmount(amount, decimals) ==
    LET parsed == BigInt(amount)
        d == parsed.value.digits
        n == Len(d)
        integerPart ==
            Big(parsed.value.neg,
                IF n > decimals THEN SubSeq(d, 1, n - decimals) ELSE <<"0">>)
        fractionalPart ==
            Big(parsed.value.neg,
                IF decimals = 0 THEN <<"0">>
                ELSE StripZeros(IF n > decimals THEN SubSeq(d, n - decimals + 1, n) ELSE d))
        padded == PadStart(BigToString(fractionalPart), decimals)
        fractionalStr == SubSeq(padded, 1, IF Len(padded) < 6 THEN Len(padded) ELSE 6)
        cut == DropTrailingZeros(fractionalStr)
        text == IF cut = <<>>
                THEN BigToString(integerPart)
                ELSE BigToString(integerPart) \o <<".">> \o cut
    IN  IF parsed.threw THEN parsed ELSE Return(text)

\* The failure both builders return for a chain that is not supported.
UnsupportedChain(chainId) ==
    [success |-> FALSE,
     error |-> <<"Chain ", chainId, " not supported. Yellow Network supports: ",
                 ChainNames>>]

\* The failure both builders return when no token address is resolved.
NoDefaultToken(chainId) ==
    [success |-> FALSE,
     error |-> <<"No default USDC address for chain ", chainId,
                 ". Please provide a token address.">>]

\* The catch block of a builder: the thrown value becomes a failure result.
Caught(outcome, fallback) ==
    IF outcome.threw
    THEN Return([success |-> FALSE,
                 error |-> IF outcome.error.isError
                           THEN outcome.error.message ELSE fallback])
    ELSE outcome

\* The transactions of a deposit as they would be with the two steps in
\* the other order.
DepositTransactionsSwapped(token, approveData, depositData, formattedAmount) ==
    <<[step |-> 1, name |-> "Deposit to Yellow",
       description |-> <<"Deposit ", formattedAmount,
                         " USDC into Yellow Network state channel">>,
       to |-> YELLOW_CONTRACTS.custody, data |-> depositData, value |-> "0"],
      [step |-> 2, name |-> "Approve USDC",
       description |-> "Allow Yellow Network custody contract to spend your USDC",
       to |-> token, data |-> approveData, value |-> "0"]>>

\* The transactions of a deposit as they would be if the approval were
\* sent to the custody contract instead of the token.
DepositTransactionsToCustody(token, approveData, depositData, formattedAmount) ==
    <<[step |-> 1, name |-> "Approve USDC",
       description |-> "Allow Yellow Network custody contract to spend your USDC",
       to |-> YELLOW_CONTRACTS.custody, data |-> approveData, value |-> "0"],
      [step |-> 2, name |-> "Deposit to Yellow",
       description |-> <<"Deposit ", formattedAmount,
                         " USDC into Yellow Network state channel">>,
       to |-> YELLOW_CONTRACTS.custody, data |-> depositData, value |-> "0"]>>

\* The `transactions` array of a deposit result.
DepositTransactions(token, approveData, depositData, formattedAmount) ==
    <<[step |-> 1, name |-> "Approve USDC",
       description |-> "Allow Yellow Network custody contract to spend your USDC",
       to |-> token, data |-> approveData, value |-> "0"],
      [step |-> 2, name |-> "Deposit to Yellow",
       description |-> <<"Deposit ", formattedAmount,
                         " USDC into Yellow Network state channel">>,
       to |-> YELLOW_CONTRACTS.custody, data |-> depositData, value |-> "0"]>>

\* The try block of buildYellowDepositTx.execute.
DepositTry(in) ==
    LET supportedChain == FindChain(in.chainId)
        token == OrElse(in.tokenAddress, DefaultToken(in.chainId))
        approveData ==
            encodeFunctionData("approve", YELLOW_CONTRACTS.custody,
                               Big(FALSE, maxUint256))
        amount == BigInt(in.amount)
        depositData ==
            IF amount.threw THEN amount
            ELSE encodeFunctionData("deposit", token, amount.value)
        formattedAmount == formatAmount(in.amount, 6)
    IN  IF supportedChain = <<>> THEN Return(UnsupportedChain(in.chainId))
        ELSE IF Falsy(token) THEN Return(NoDefaultToken(in.chainId))
        ELSE IF approveData.threw THEN approveData
        ELSE IF depositData.threw THEN depositData
        ELSE IF formattedAmount.threw THEN formattedAmount
        ELSE Return(
            [success |-> TRUE,
             chainId |-> in.chainId,
             chainName |-> supportedChain[1].name,
             depositAmount |-> [raw |-> in.amount,
                                formatted |-> formattedAmount.value,
                                symbol |-> "USDC"],
             transactions |-> DepositTransactions(token, approveData.value,
                                                  depositData.value,
                                                  formattedAmount.value),
             contracts |-> [custody |-> YELLOW_CONTRACTS.custody, token |-> token],
             nextStep |-> "After depositing, connect to ClearNode WebSocket to start instant operations."])

\* The try block of buildYellowWithdrawTx.execute.
WithdrawTry(in) ==
    LET supportedChain == FindChain(in.chainId)
        token == OrElse(in.tokenAddress, DefaultToken(in.chainId))
        amount == BigInt(in.amount)
        withdrawData ==
            IF amount.threw THEN amount
            ELSE encodeFunctionData("withdraw", token, amount.value)
        formattedAmount == formatAmount(in.amount, 6)
    IN  IF supportedChain = <<>> THEN Return(UnsupportedChain(in.chainId))
        ELSE IF Falsy(token) THEN Return(NoDefaultToken(in.chainId))
        ELSE IF withdrawData.threw THEN withdrawData
        ELSE IF formattedAmount.threw THEN formattedAmount
        ELSE Return(
            [success |-> TRUE,
             chainId |-> in.chainId,
             chainName |-> supportedChain[1].name,
             withdrawAmount |-> [raw |-> in.amount,
                                 formatted |-> formattedAmount.value,
                                 symbol |-> "USDC"],
             transaction |-> [name |-> "Withdraw from Yellow",
                              description |-> <<"Withdraw ", formattedAmount.value,
                                                " USDC from Yellow Network custody">>,
                              to |-> YELLOW_CONTRACTS.custody,
                              data |-> withdrawData.value,
                              value |-> "0"],
             contracts |-> [custody |-> YELLOW_CONTRACTS.custody, token |-> token],
             note |-> "Ensure any active state channel is properly closed before withdrawing."])

\* buildYellowDepositTx.execute.
buildYellowDepositTx(in) ==
    Caught(DepositTry(in), "Failed to build deposit transaction")

\* buildYellowWithdrawTx.execute as it would be without its try and catch.
buildYellowWithdrawTxUncaught(in) == WithdrawTry(in)

\* buildYellowWithdrawTx.execute.
buildYellowWithdrawTx(in) ==
    Caught(WithdrawTry(in), "Failed to build withdraw transaction")

\* The chain ids a call may name: the supported ones, Polygon, Optimism
\* and 0.
ToolChains == {1, 42161, 8453, 137, 10, 0}

\* The amounts a call may name: decimal integers (the largest uint256
\* among them), the empty string, a padded integer, and text BigInt or the
\* encoder refuses (letters, a fraction, a negative number, 2^256).
AmountOverflow ==
    <<"1", "1", "5", "7", "9", "2", "0", "8", "9", "2", "3", "7", "3",
    "1", "6", "1", "9", "5", "4", "2", "3", "5", "7", "0", "9", "8", "5",
    "0", "0", "8", "6", "8", "7", "9", "0", "7", "8", "5", "3", "2", "6",
    "9", "9", "8", "4", "6", "6", "5", "6", "4", "0", "5", "6", "4", "0",
    "3", "9", "4", "5", "7", "5", "8", "4", "0", "0", "7", "9", "1", "3",
    "1", "2", "9", "6", "3", "9", "9", "3", "6">>

ToolAmounts ==
    {<<"0">>, <<"1">>, <<"1", "0", "0", "0", "0", "0", "0">>, <<"1", "5", "0", "0", "0", "0", "0">>, maxUint256,
     <<>>, <<" ", "4", "2">>,
     <<"a", "b", "c">>, <<"1", ".", "5">>, <<"-", "1">>, AmountOverflow}

ToolTokens == {Undefined, "", TokenUSDT, TokenSymbol, TokenBadChecksum}

ToolInputs ==
    [chainId : ToolChains, amount : ToolAmounts, tokenAddress : ToolTokens]

\* One of the builders is called with the arguments drawn.
DepositCall ==
    /\ toolOutput = NoOutput
    /\ toolOutput' = [tool |-> "buildYellowDepositTx",
                      outcome |-> buildYellowDepositTx(toolInput)]
    /\ UNCHANGED <<clientVars, toolInput>>

WithdrawCall ==
    /\ toolOutput = NoOutput
    /\ toolOutput' = [tool |-> "buildYellowWithdrawTx",
                      outcome |-> buildYellowWithdrawTx(toolInput)]
    /\ UNCHANGED <<clientVars, toolInput>>

(* --------------------------- specifications ---------------------------- *)

\* What the user and React do, in a run of at most n sockets.
ClientStep(n) ==
    \/ \E w \in WalletStates : ConnectRefused(w)
    \/ \E w \in WalletStates : Connect(w, n)
    \/ Disconnect
    \/ Unmount

\* What the browser does to a socket, and the handshake timer.
SocketStep ==
    \/ \E s \in Sockets : OpenEvent(s)
    \/ \E s \in Sockets : TimerFires(s)
    \/ \E s \in Sockets : CloseEvent(s)
    \/ \E s \in Sockets : FailEvent(s)

\* What the coordinator and the wallet do.
PeerStep ==
    \/ \E s \in Sockets, f \in Frames : MessageEvent(s, f, MaxSigns)
    \/ \E s \in Sockets : SignResolved(s)
    \/ \E s \in Sockets, err \in SignErrors : SignRejected(s, err)

\* The session client against any coordinator and wallet.
Next == ClientStep(MaxSockets) \/ SocketStep \/ PeerStep

Spec == Init /\ [][Next]_vars

\* The session client with its timers: a timeout that is set and not
\* cleared fires.
SpecLive == Spec /\ \A s \in Sockets : WF_vars(TimerFires(s))

\* The session client against a coordinator that accepts connections and
\* never sends a frame.
NextSilent == ClientStep(MaxSilentSockets) \/ SocketStep

SpecSilent == Init /\ [][NextSilent]_vars

\* The session client against a coordinator that accepts every wallet: the
\* only frames it sends are auth_verify responses with authenticated = true.
NextAccepting ==
    \/ ClientStep(MaxAcceptedSockets)
    \/ SocketStep
    \/ \E s \in Sockets, f \in AcceptFrames : MessageEvent(s, f, MaxSigns)

SpecAccepting == Init /\ [][NextAccepting]_vars

\* The transaction builders called once with any arguments; the session
\* client is idle.
InitTools ==
    /\ InitClient
    /\ toolInput \in ToolInputs
    /\ toolOutput = NoOutput

NextTools == DepositCall \/ WithdrawCall

SpecTools == InitTools /\ [][NextTools]_vars



(* ------------------------------- claims -------------------------------- *)

\* A socket the client constructed and that is not closed and not closing.
Open(s) == readyState[s] \in {"CONNECTING", "OPEN"}

\* The last step was a message event that authHandler handled.
Handled(F) == last.op = "message" /\ last.hs /\ last.frame \in F

\* The last step was a message event with a push frame, met in status
\* active by a mounted provider.
Pushed(F) ==
    /\ last.op = "message"
    /\ last.frame \in F
    /\ last.prev.status = "active"
    /\ component = "mounted"

\* C1: at any instant at most one WebSocket the client constructed is open
\* (constructed, not closed, close() not called on it).
C1_AtMostOneOpen == Cardinality({s \in Sockets : Open(s)}) <= 1

\* C2: when the 30-second timer of a handshake fires (no auth_verify
\* response settled the handshake before), the session of the mounted
\* provider has status error with the reason 'Authentication timeout' and
\* close() was called on the handshake's socket; the timer stays armed as
\* long as the handshake is not settled.
C2_TimeoutFails ==
    /\ (last.op = "timeout" /\ component = "mounted") =>
            /\ session.status = "error"
            /\ session.error = ErrTimeout
            /\ closeCalled[last.sock]
            /\ ~Open(last.sock)
    /\ \A s \in Sockets : promise[s] = "pending" => timer[s] = "pending"

C2_Witness ==
    /\ last.op = "timeout"
    /\ component = "mounted"
    /\ last.prev.status = "authenticating"
    /\ session.error = ErrTimeout
    /\ closeCalled[last.sock]

\* C3, as stated: an auth_verify response without authenticated = true
\* leaves the session in status error with the server's error.message as
\* the reason whenever one is supplied, and 'Authentication rejected'
\* otherwise.
C3_AsStated ==
    (Handled(RejectFrames) /\ component = "mounted") =>
        /\ session.status = "error"
        /\ session.error = IF last.frame.message = Absent
                           THEN ErrRejected ELSE last.frame.message

\* C3, amended: an auth_verify response without authenticated = true
\* leaves the session in status error with the server's error.message as
\* the reason when that message is a non-empty string, and with
\* 'Authentication rejected' when it is absent or empty; the handshake is
\* then rejected for good and its handler removed, and status only ever
\* becomes active by a handshake whose promise resolves.
C3_RejectionFails ==
    /\ (Handled(RejectFrames) /\ component = "mounted") =>
            /\ session.status = "error"
            /\ session.error = IF last.frame.message \in {Absent, ""}
                               THEN ErrRejected ELSE last.frame.message
            /\ promise[last.sock] = "rejected"
            /\ ~listener[last.sock]
    /\ (session.status = "active" /\ last.prev.status # "active") =>
            /\ Handled(AcceptFrames)
            /\ promise[last.sock] = "resolved"

C3_Witness ==
    /\ Handled(RejectFrames)
    /\ component = "mounted"
    /\ last.frame.message = ErrServer
    /\ session.error = ErrServer
    /\ promise[last.sock] = "rejected"

\* C4, as stated: an auth_verify response with authenticated = true makes
\* the session active with channelId equal to every supplied
\* result.channelId (null when absent) and balance equal to every supplied
\* result.balance ('0' when absent).
C4_AsStated ==
    (Handled(AcceptFrames) /\ component = "mounted") =>
        /\ session.status = "active"
        /\ session.channelId = IF last.frame.channelId = Absent
                               THEN Null ELSE last.frame.channelId
        /\ session.balance = IF last.frame.balance = Absent
                             THEN "0" ELSE last.frame.balance

\* C4, amended: an auth_verify response with authenticated = true makes
\* the session active with channelId equal to every supplied non-empty
\* result.channelId (null when absent or empty) and balance equal to every
\* supplied non-empty result.balance ('0' when absent or empty).
C4_AcceptanceActivates ==
    (Handled(AcceptFrames) /\ component = "mounted") =>
        /\ session.status = "active"
        /\ session.channelId = IF last.frame.channelId \in {Absent, ""}
                               THEN Null ELSE last.frame.channelId
        /\ session.balance = IF last.frame.balance \in {Absent, ""}
                             THEN "0" ELSE last.frame.balance

C4_Witness ==
    /\ Handled(AcceptFrames)
    /\ component = "mounted"
    /\ last.frame.channelId = "c1"
    /\ last.frame.balance = "1000000"
    /\ session.status = "active"
    /\ session.channelId = "c1"
    /\ session.balance = "1000000"

\* C5: in status active a balance_update push with params.balance = b sets
\* balance to b and changes no other field of the session.
C5_BalanceUpdate ==
    \A f \in BalanceFrames :
        (Pushed({f}) /\ f.obj /\ f.balance # Absent) =>
            session = [last.prev EXCEPT !.balance = f.balance]

C5_Witness ==
    /\ Pushed(BalanceFrames)
    /\ last.frame.balance = "2000000"
    /\ last.prev.balance = "1000000"
    /\ last.prev.channelId = "c1"
    /\ session.balance = "2000000"

\* C6: in status active a channel_closed push, with or without params,
\* sets channelId to null and balance to '0'; status stays active and the
\* other fields are unchanged.
C6_ChannelClosed ==
    Pushed(ClosedFrames) =>
        session = [last.prev EXCEPT !.channelId = Null, !.balance = "0"]

C6_Witness ==
    /\ Pushed(ClosedFrames)
    /\ ~last.frame.obj
    /\ last.prev.channelId = "c1"
    /\ last.prev.balance = "1000000"
    /\ session.status = "active"
    /\ session.channelId = Null
    /\ session.balance = "0"

\* C7: in status active a channel_opened push with params {channelId: c,
\* balance: b} sets channelId to c and balance to b and changes neither
\* status nor error nor any other field.
C7_ChannelOpened ==
    \A f \in OpenedFrames :
        (Pushed({f}) /\ f.obj /\ f.channelId # Absent /\ f.balance # Absent) =>
            session = [last.prev EXCEPT !.channelId = f.channelId,
                                        !.balance = f.balance]

C7_Witness ==
    /\ Pushed(OpenedFrames)
    /\ last.frame.channelId = "c2"
    /\ last.frame.balance = "2000000"
    /\ last.prev.channelId = Null
    /\ last.prev.balance = "0"
    /\ session.channelId = "c2"
    /\ session.balance = "2000000"

\* C8: disconnect() called in a status other than error leaves exactly the
\* initial state, has called close() on the socket wsRef held and has set
\* wsRef to null.
C8_DisconnectResets ==
    (last.op = "disconnect" /\ last.prev.status # "error") =>
        /\ session = initialState
        /\ wsRef = 0
        /\ last.ref # 0 => closeCalled[last.ref] /\ ~Open(last.ref)

C8_Witness ==
    /\ last.op = "disconnect"
    /\ last.prev.status = "active"
    /\ last.prev.channelId = "c1"
    /\ last.ref # 0
    /\ session = initialState
    /\ readyState[last.ref] = "CLOSING"

\* C9: disconnect() called in status error leaves status error and the
\* recorded reason as they were.
C9_DisconnectKeepsError ==
    (last.op = "disconnect" /\ last.prev.status = "error") =>
        /\ session.status = "error"
        /\ session.error = last.prev.error

\* C10: once disconnect() has let go of a socket, no later event of that
\* socket's handshake (a response, the signature resolving or rejecting,
\* the timeout) changes the session, which is in the initial state.
C10_DisconnectSupersedes ==
    \A s \in Sockets :
        ( /\ last.op \in {"message", "signResolved", "signRejected", "timeout"}
          /\ last.sock = s
          /\ discarded[s] = "disconnect"
          /\ last.prev = initialState ) =>
            session = initialState

\* C11: a close event that arrives while status is error leaves the
\* session as it is (same status, same reason), also when the socket was
\* closed by its own failed handshake; the close event that follows an
\* error event leaves the session as the error event set it.
C11_CloseKeepsError ==
    /\ (last.op = "close" /\ last.prev.status = "error") => session = last.prev
    /\ (last.op = "fail" /\ component = "mounted") =>
            session = [last.prev EXCEPT !.status = "error", !.error = ErrSocket]

C11_Witness ==
    /\ last.op = "close"
    /\ component = "mounted"
    /\ timer[last.sock] = "fired"
    /\ closeCalled[last.sock]
    /\ last.prev.status = "error"
    /\ last.prev.error = ErrTimeout
    /\ session = last.prev

\* The wallets connect() must refuse: no address, not connected, or on a
\* chain other than 1, 42161 and 8453.
Unfit(w) ==
    \/ w.address = Undefined
    \/ ~w.isConnected
    \/ w.chainId \notin {1, 42161, 8453}

\* C12: connect() with a wallet that has no address, is not connected or
\* is on a chain other than 1, 42161 and 8453 sets status to error with
\* the reason naming the wallet, constructs no WebSocket, sends no frame
\* and leaves every socket and wsRef as they were.
C12_RefusedNoAttempt ==
    [][\A w \in WalletStates :
          (Unfit(w) /\ (ConnectRefused(w) \/ Connect(w, MaxSockets))) =>
              /\ session' = [session EXCEPT !.status = "error", !.error = ErrWallet]
              /\ UNCHANGED <<wsRef, sockVars>>]_vars

C12_Witness ==
    /\ last.op = "connectRefused"
    /\ last.prev.status = "disconnected"
    /\ session.status = "error"
    /\ session.error = ErrWallet
    /\ Created = {}
    /\ wsRef = 0

\* C13: a handshake that failed (timeout, text that is not JSON, a
\* rejecting auth_verify response, a signature the wallet refused) has had
\* close() called on its socket, and that socket is closing or closed.
C13_FailedHandshakeCloses ==
    /\ \A s \in Sockets : promise[s] = "rejected" => closeCalled[s] /\ ~Open(s)
    /\ (last.op = "timeout" \/ Handled(InvalidFrames \cup RejectFrames)) =>
            /\ promise[last.sock] = "rejected"
            /\ closeCalled[last.sock]
    /\ (last.op = "signRejected" /\ promise[last.sock] # "resolved") =>
            /\ promise[last.sock] = "rejected"
            /\ closeCalled[last.sock]

C13_Witness ==
    /\ last.op = "signRejected"
    /\ last.err = ErrorOf(ErrSign)
    /\ last.prev.status = "authenticating"
    /\ promise[last.sock] = "rejected"
    /\ closeCalled[last.sock]
    /\ readyState[last.sock] = "CLOSING"

\* C14: the error field is non-null only in status error, and connect()
\* with the preconditions met leaves error null and status connecting.
C14_ErrorOnlyInError ==
    /\ session.error # Null => session.status = "error"
    /\ (last.op = "connect" /\ component = "mounted") =>
            session.status = "connecting" /\ session.error = Null

\* C15: every step that takes status out of active leaves channelId null
\* and balance '0'.
C15_LeavingActiveClears ==
    (last.prev.status = "active" /\ session.status # "active") =>
        session.channelId = Null /\ session.balance = "0"

\* C16: every step that sets status to disconnected or error (a socket
\* error, a failed handshake, a refused connect(), disconnect(), a close
\* event) has called close() on the socket wsRef held, and wsRef holds no
\* socket that is still connecting or open.
C16_ErrorReleasesSocket ==
    ( /\ session.status \in {"disconnected", "error"}
      /\ last.prev.status # session.status \/ last.op = "connectRefused" ) =>
        /\ last.ref # 0 => closeCalled[last.ref] \/ readyState[last.ref] = "CLOSED"
        /\ wsRef # 0 => ~Open(wsRef)

\* The frames that are not JSON or lack a field their handler reads.
Malformed ==
    InvalidFrames \cup
    {f \in BalanceFrames : ~f.obj \/ f.balance = Absent} \cup
    {f \in OpenedFrames : ~f.obj \/ f.channelId = Absent \/ f.balance = Absent}

\* C17: a frame that is not JSON or lacks a field its handler reads,
\* received in any status, the handshake included, is dropped: the session
\* is as before, the provider lives and the socket stays open.
C17_MalformedDropped ==
    (last.op = "message" /\ last.frame \in Malformed /\ component # "unmounted") =>
        /\ component = "mounted"
        /\ session = last.prev
        /\ readyState[last.sock] = "OPEN"

\* The decimal integers a uint256 holds, written without sign or spaces.
IntegerAmount(a) ==
    /\ a # <<>>
    /\ \A i \in 1..Len(a) : IsDigit(a[i])
    /\ DigitsLeq(StripZeros(a), maxUint256)

\* A result with exactly the approval as step 1 and the deposit as step 2,
\* each with calldata, the two different.
TwoSteps(v) ==
    /\ v.success
    /\ Len(v.transactions) = 2
    /\ v.transactions[1].step = 1
    /\ v.transactions[1].name = "Approve USDC"
    /\ v.transactions[1].data[1] = "0x095ea7b3"
    /\ v.transactions[2].step = 2
    /\ v.transactions[2].name = "Deposit to Yellow"
    /\ v.transactions[2].data[1] = "0x47e7ef24"
    /\ Len(v.transactions[1].data) > 0
    /\ Len(v.transactions[2].data) > 0
    /\ v.transactions[1].data # v.transactions[2].data

\* C18, as stated: for every supported chain and every integer amount
\* buildYellowDepositTx returns success with exactly two transactions, the
\* approval then the deposit, each with calldata and the two different.
C18_AsStated ==
    ( /\ toolOutput.tool = "buildYellowDepositTx"
      /\ toolInput.chainId \in {1, 42161, 8453}
      /\ IntegerAmount(toolInput.amount) ) =>
        /\ ~toolOutput.outcome.threw
        /\ TwoSteps(toolOutput.outcome.value)

\* C18, amended: for every supported chain, every integer amount and a
\* token address that is omitted, empty or a valid address,
\* buildYellowDepositTx returns success with exactly two transactions, the
\* approval then the deposit, each with calldata and the two different.
C18_DepositTwoSteps ==
    ( /\ toolOutput.tool = "buildYellowDepositTx"
      /\ toolInput.chainId \in {1, 42161, 8453}
      /\ IntegerAmount(toolInput.amount)
      /\ toolInput.tokenAddress \in {Undefined, "", TokenUSDT} ) =>
        /\ ~toolOutput.outcome.threw
        /\ TwoSteps(toolOutput.outcome.value)

C18_Witness ==
    /\ toolOutput.tool = "buildYellowDepositTx"
    /\ toolInput.chainId = 42161
    /\ toolInput.amount = <<"1", "0", "0", "0", "0", "0", "0">>
    /\ toolInput.tokenAddress = Undefined
    /\ TwoSteps(toolOutput.outcome.value)
    /\ toolOutput.outcome.value.transactions[2].to = YELLOW_CONTRACTS.custody

\* The arguments no calldata exists for: an amount that is no integer of
\* a uint256, or a token that is no address.
Unencodable(in) ==
    \/ in.amount \in {<<"a", "b", "c">>, <<"1", ".", "5">>, <<"-", "1">>, AmountOverflow}
    \/ in.tokenAddress \in {TokenSymbol, TokenBadChecksum}

\* C19: buildYellowDepositTx and buildYellowWithdrawTx never throw; for a
\* chain other than 1, 42161 and 8453 they return success = false with an
\* error naming the chain id, and for arguments that cannot be encoded
\* they return success = false with an error message.
C19_BuildersFailSoftly ==
    toolOutput.tool # "none" =>
        /\ ~toolOutput.outcome.threw
        /\ toolInput.chainId \notin {1, 42161, 8453} =>
                /\ ~toolOutput.outcome.value.success
                /\ toolOutput.outcome.value.error[1] = "Chain "
                /\ toolOutput.outcome.value.error[2] = toolInput.chainId
        /\ Unencodable(toolInput) =>
                /\ ~toolOutput.outcome.value.success
                /\ Len(toolOutput.outcome.value.error) > 0

C19_Witness ==
    /\ toolOutput.tool = "buildYellowWithdrawTx"
    /\ toolInput.chainId = 8453
    /\ toolInput.amount = <<"1", ".", "5">>
    /\ ~toolOutput.outcome.threw
    /\ ~toolOutput.outcome.value.success
    /\ toolOutput.outcome.value.error[1] = "Cannot convert "


\* C20: a handshake that settles before its 30 seconds are over (an
\* auth_verify response accepted or rejected, text that is not JSON, a
\* signature refused) stops its timer, so the timer of a handshake that
\* made the session active is cleared, never fires and never rejects.
C20_TimerCancelled ==
    /\ \A s \in Sockets : promise[s] = "resolved" => timer[s] = "cleared"
    /\ ( \/ Handled(AcceptFrames \cup RejectFrames \cup InvalidFrames)
         \/ last.op = "signRejected" ) => timer[last.sock] # "pending"
    /\ last.op = "timeout" => promise[last.sock] = "rejected"

C20_Witness ==
    /\ Handled(AcceptFrames)
    /\ component = "mounted"
    /\ last.prev.status = "authenticating"
    /\ session.status = "active"
    /\ promise[last.sock] = "resolved"
    /\ timer[last.sock] = "cleared"

\* C21: a response to auth_challenge (id 1) without result.challenge ends
\* the handshake at once: status error, close() called on the socket, the
\* promise rejected.
C21_MissingChallengeFails ==
    ( /\ Handled(ChallengeFrames)
      /\ ~last.frame.flag
      /\ component = "mounted" ) =>
        /\ session.status = "error"
        /\ promise[last.sock] = "rejected"
        /\ closeCalled[last.sock]

\* The last step was signMessageAsync rejecting for a handshake that was
\* not settled: authHandler was still registered and the timer, cleared
\* now, had not fired.
SigningFailed ==
    /\ last.op = "signRejected"
    /\ last.hs
    /\ timer[last.sock] = "cleared"
    /\ component = "mounted"

\* C22, as stated: when signMessageAsync rejects, the session has status
\* error with the rejection's message as the reason, close() was called on
\* the socket and no auth_verify frame was sent for that handshake.
C22_AsStated ==
    SigningFailed =>
        /\ session.status = "error"
        /\ session.error = last.err.message
        /\ closeCalled[last.sock]
        /\ sentVerify[last.sock] = 0

\* C22, amended: when signMessageAsync rejects while the handshake is not
\* settled, the session has status error with the rejection's message as
\* the reason when an Error was thrown and 'Authentication failed'
\* otherwise, close() was called on the socket, which is closing, so that
\* no auth_verify frame is sent on it from then on.
C22_SigningFailureFails ==
    /\ [](SigningFailed =>
            /\ session.status = "error"
            /\ session.error = IF last.err.isError
                               THEN last.err.message ELSE ErrAuthFailed
            /\ promise[last.sock] = "rejected"
            /\ closeCalled[last.sock]
            /\ ~Open(last.sock))
    /\ [][\A s \in Sockets :
            (closeCalled[s] /\ promise[s] = "rejected") =>
                sentVerify'[s] = sentVerify[s]]_vars

C22_Witness ==
    /\ SigningFailed
    /\ last.err = ErrorOf(ErrSign)
    /\ session.status = "error"
    /\ session.error = ErrSign
    /\ sentVerify[last.sock] = 0
    /\ signing[last.sock] = 0
    /\ readyState[last.sock] = "CLOSING"

\* C23: once the provider is unmounted, close() has been called on every
\* socket the client constructed that is not closed, and no handshake
\* timer is pending.
C23_UnmountReleases ==
    component = "unmounted" =>
        \A s \in Sockets :
            /\ Open(s) => closeCalled[s]
            /\ timer[s] # "pending"

\* C24: every handshake settles: a mounted provider in status
\* authenticating eventually has status active, error or disconnected,
\* whatever the coordinator sends or does not send, given that a timer
\* that is set and not cleared fires.
C24_HandshakeSettles ==
    (session.status = "authenticating" /\ component = "mounted") ~>
        (session.status \in {"active", "error", "disconnected"} \/ component # "mounted")

C24_Witness ==
    /\ last.op = "timeout"
    /\ component = "mounted"
    /\ last.prev.status = "authenticating"
    /\ listener[last.sock]
    /\ signing[last.sock] = 0
    /\ sentVerify[last.sock] = 0
    /\ session.status = "error"

\* C25: status becomes authenticating only from connecting, by an open
\* event, and becomes active only from authenticating.
C25_StatusEdges ==
    /\ (session.status = "authenticating" /\ last.prev.status # "authenticating") =>
            last.prev.status = "connecting" /\ last.op = "open"
    /\ (session.status = "active" /\ last.prev.status # "active") =>
            last.prev.status = "authenticating"

\* The token a call addresses: the tokenAddress given, or the USDC of the
\* chain when none (or an empty one) is given.
ResolvedToken(in) ==
    IF in.tokenAddress \in {Undefined, ""}
    THEN USDC_ADDRESSES[in.chainId] ELSE in.tokenAddress

\* The integer an amount text denotes, digit for digit.
ExactAmount(a) ==
    IF a = <<>> THEN <<"0">>
    ELSE IF Head(a) = " " THEN Tail(a) ELSE a

\* C26: in a successful buildYellowDepositTx result the approval is sent
\* to the resolved token and approves the custody contract for 2^256 - 1
\* whatever the amount, and the deposit is sent to the custody contract
\* with that same token and exactly the amount given.
C26_DepositCalldata ==
    ( /\ toolOutput.tool = "buildYellowDepositTx"
      /\ ~toolOutput.outcome.threw
      /\ toolOutput.outcome.value.success ) =>
        LET tx == toolOutput.outcome.value.transactions
            token == ResolvedToken(toolInput)
        IN  /\ tx[1].to = token
            /\ tx[1].data = <<"0x095ea7b3", "0x490fb189DdE3a01B00be9BA5F41e3447FbC838b6",
                              [neg |-> FALSE, digits |-> maxUint256]>>
            /\ tx[2].to = "0x490fb189DdE3a01B00be9BA5F41e3447FbC838b6"
            /\ tx[2].data = <<"0x47e7ef24", token,
                              [neg |-> FALSE, digits |-> ExactAmount(toolInput.amount)]>>

C26_Witness ==
    /\ toolOutput.tool = "buildYellowDepositTx"
    /\ toolInput.chainId = 8453
    /\ toolInput.tokenAddress = TokenUSDT
    /\ toolInput.amount = <<"1", "5", "0", "0", "0", "0", "0">>
    /\ toolOutput.outcome.value.success
    /\ toolOutput.outcome.value.transactions[1].to = TokenUSDT
    /\ toolOutput.outcome.value.transactions[2].data[3].digits = toolInput.amount

\* C27: an event of a socket that connect() replaced (its close event,
\* its error, the timeout of its handshake) changes neither the session
\* nor wsRef, which holds the socket of the current attempt.
C27_StaleEventsIgnored ==
    ( /\ last.op \in {"close", "fail", "timeout"}
      /\ discarded[last.sock] = "connect"
      /\ last.ref # 0
      /\ last.ref # last.sock ) =>
        /\ wsRef = last.ref
        /\ session = last.prev

\* C28: whenever the status of a mounted provider is active, wsRef holds a
\* socket, and that socket is open and is the one whose handshake was
\* accepted.
C28_ActiveHoldsSocket ==
    (session.status = "active" /\ component = "mounted") =>
        /\ wsRef # 0
        /\ readyState[wsRef] = "OPEN"
        /\ promise[wsRef] = "resolved"

\* C29: on each socket at most one signature is requested and at most one
\* auth_verify frame is sent, however many id-1 responses arrive.
C29_OneVerify ==
    \A s \in Sockets : signing[s] + sentVerify[s] <= 1

\* C30: a push frame (balance_update, channel_opened, channel_closed)
\* delivered in a status other than active leaves the whole session
\* unchanged.
C30_PushOnlyWhenActive ==
    ( /\ last.op = "message"
      /\ last.frame \in BalanceFrames \cup OpenedFrames \cup ClosedFrames
      /\ last.prev.status # "active" ) =>
        session = last.prev

=============================================================================
